---- MODULE Spec2Model ----
(***************************************************************************)
(* MSSADecomposer.core (src/feature_eng/plugins/core/mssa_decomposer.py):  *)
(* the segment loop, the rank selection at segment 0, the accumulation of  *)
(* the elementary and of the grouped components, and the report/return     *)
(* tail.                                                                   *)
(*                                                                         *)
(* Matrices are modelled by their shape and provenance, not their numbers: *)
(* a matrix is a sequence of blocks, one block per np.concatenate operand, *)
(* each block recording the segment it was computed from, the feature it   *)
(* belongs to and its shape.                                               *)
(*                                                                         *)
(* pymssa.MSSA is an external library.  It is modelled by its contract:    *)
(* fit(X) on an N x P matrix leaves components_ of shape (P, N, rank_),    *)
(* rank_ being n_components, or the SVHT estimate for n_components='svht', *)
(* and never more than the number of singular values of the trajectory     *)
(* matrix; grouped_components_[j] has shape (N, number of groups);         *)
(* indexing a component that does not exist raises IndexError.             *)
(***************************************************************************)
EXTENDS Integers, Sequences, FiniteSets, TLC

\* ---------------------------------------------------------------- bounds
MaxT == 75
MaxF == 2
MaxW == 12
MaxTicks == 12
MaxGenW == 3
MaxCols == 7

\* window sizes tried: the degenerate 0, two small ones and one large enough
\* for a segment to carry 13 components
WindowSizes == {0, 1, 2, MaxW}
\* configured --num_components values tried (0 = SVHT)
NumComponentsValues == {0, 3, 13, 14}
\* ranks the SVHT estimate may return (it is data dependent)
SvhtRanks == {0, 2, 13}
\* what the memory np.empty hands out may hold
MemoryImages == {"image_a", "image_b"}
\* group partitions a caller may put in the configuration
PartitionValues == { << <<0>>, <<1, 2>> >>,
                     << <<0>>, <<1>>, <<2>>, <<3>>, <<4, 5>>, <<6>>, <<7>>,
                        <<8>>, <<9>>, <<10>>, <<11>>, <<12>> >> }

\* names core looks up in the module namespace (it never assigns them, so
\* Python compiles them as global lookups).  The file binds none of them.
ShippedGlobals == {}
\* a host that binds the accumulator before calling core
AccGlobals == {"grouped_output"}
\* a host that binds every name the report tail reads
AllGlobals == {"grouped_output", "output", "s_data", "plt"}

NoRank == -1

VARIABLES
    rows_d,          \* T: input_ds.shape[0]
    cols_d,          \* F: input_ds.shape[1]
    window_size,     \* self.conf.window_size
    num_components,  \* self.conf.num_components
    group_similar,   \* self.conf.group_similar
    group_partition, \* the partition the caller configured (self.conf)
    module_globals,  \* names bound in the module namespace when core is called
    pc,              \* position in core
    outcome,         \* "running", "returned" or the exception raised
    self_output_ds,  \* shape of self.output_ds (np.empty: contents undefined)
    segments,
    i,
    j,
    first,
    last,
    rank,            \* local variable rank (NoRank = unbound)
    mssa,            \* the MSSA object of the current iteration
    fits,            \* every MSSA(...).fit(...) call made so far
    output_ds,       \* local variable output_ds (elementary components)
    grouped_output,  \* module-level list grouped_output, one entry per feature
    group_calls,     \* every mssa.set_ts_component_groups(j, groups) call so far
    returned,        \* shape of the returned matrix
    returned_data,   \* contents of the returned matrix
    call,            \* 1 for the first call of core on the instance, 2 for a second
    prev,            \* what the previous call ended with
    \* ---- q_datagen_multi_v2.py (the per-tick rolling generator)
    csv_rows,        \* data rows of the input csv file
    p_window_size,   \* argument 5
    p_n_components,  \* argument 6
    gen_pc,          \* position in the script
    gen_outcome,     \* "running", "finished" or the exception raised
    num_ticks,       \* len(my_data)
    ts_data,         \* row range <<lo, hi>> the scaler was fitted on
    s_data_rows,     \* rows of s_data = pre.transform(my_data)
    dumped,          \* the scaler was written by joblib.dump
    gen_i,           \* loop variable i
    gen_fits,        \* every mssa.fit call of the script
    output,          \* the list output
    \* ---- app/data_handler.py, app/data_processor.py
    csv_columns,     \* number of columns of the input csv file, date included
    app_pc,          \* position of the caller of the data functions
    app_outcome,     \* "running", "ok" or the exception raised
    data,            \* the DataFrame load_csv returned
    frame_arg,       \* the DataFrame handed to write_csv / process_data
    include_date,    \* argument of write_csv
    headers,         \* argument of write_csv
    written,         \* the series written to the output file, in file order
    numeric_data,    \* the columns handed to plugin.process
    \* ---- app/plugins/tech_indicator.py
    heap,            \* the dict objects: the class dict and the copies
    self_params,     \* instance -> the dict object its self.params refers to
    last_given       \* instance -> key -> last value a set_params call gave

vars == <<rows_d, cols_d, window_size, num_components, group_similar,
          group_partition, module_globals, pc,
          outcome, self_output_ds, segments, i, j, first, last, rank, mssa,
          fits, output_ds, grouped_output, group_calls, returned,
          returned_data, call, prev,
          csv_rows, p_window_size, p_n_components, gen_pc, gen_outcome,
          num_ticks, ts_data, s_data_rows, dumped, gen_i, gen_fits, output,
          csv_columns, app_pc, app_outcome, data, frame_arg, include_date,
          headers, written, numeric_data, heap, self_params, last_given>>

genVars == <<csv_rows, p_window_size, p_n_components, gen_pc, gen_outcome,
             num_ticks, ts_data, s_data_rows, dumped, gen_i, gen_fits,
             output>>

appVars == <<csv_columns, app_pc, app_outcome, data, frame_arg, include_date,
             headers, written, numeric_data>>

plugVars == <<heap, self_params, last_given>>

coreVars == <<rows_d, cols_d, window_size, num_components, group_similar,
              group_partition, module_globals, pc, outcome, self_output_ds,
              segments, i, j, first, last, rank, mssa, fits, output_ds,
              grouped_output, group_calls, returned, returned_data, call,
              prev>>

conf == <<rows_d, cols_d, window_size, num_components, group_similar,
          group_partition, module_globals>>

Min(a, b) == IF a <= b THEN a ELSE b

\* ------------------------------------------------------------- constants
ts0_groups_SinglePair ==
    << <<0>>, <<1>>, <<2>>, <<3>>, <<4, 5>>, <<6>>, <<7>>, <<8>>, <<9>>,
       <<10>>, <<11>>, <<12>> >>

\* line 75: the manually set group list
ts0_groups == << <<0>>, <<1>>, <<2>>, <<3>>, <<4, 5>>, <<6>>, <<7>>, <<8>>,
                 <<9, 10>>, <<11>>, <<12>> >>

GroupIndices(groups) ==
    UNION { { groups[g][k] : k \in 1..Len(groups[g]) } : g \in 1..Len(groups) }

GroupsFor_PerFeature(s, f) == IF f = 0 THEN ts0_groups ELSE << <<0>> >>

\* lines 74-78: the groups set for feature f of segment s
GroupsFor(s, f) == ts0_groups

SegmentCount_Ceil(T, w) == (T + 2 * w - 1) \div (2 * w)

\* ------------------------------------------------------ pure computations
\* line 40
SegmentCount(T, w) == T \div (2 * w)

\* line 43
SegFirst(s, w) == s * (2 * w)

SegLast_NoRemainder(s, n, T, w) == (s + 1) * (2 * w)

\* lines 44-47
SegLast(s, n, T, w) == IF s # n - 1 THEN (s + 1) * (2 * w) ELSE T

\* number of singular values of the trajectory matrix of an N x P segment
\* (window L = window_size, K = N - L + 1 lagged vectors, P stacked series)
SingularValues(N, P, w) == Min(w * P, N - w + 1)

SelectRank_IgnoresConfigured(s, nc, est, old) == IF s = 0 THEN est ELSE old

\* lines 51-59: the rank core holds after the rank step of segment s
\* (est is the SVHT estimate of that fit, old the value held before)
SelectRank(s, nc, est, old) ==
    IF s = 0 THEN (IF nc = 0 THEN est ELSE nc) ELSE old

UsesSvht_EverySegment(s, nc) == nc = 0

\* lines 54, 60, 63: does the fit of segment s run SVHT
UsesSvht(s, nc) == s = 0 /\ nc = 0

\* lines 67-70: the local output_ds after the concatenation step of segment s
ConcatComponents(s, old, comps) ==
    IF s = 0 THEN <<comps>> ELSE old

\* lines 81-85: grouped_output after feature f of segment s was accumulated
AccumulateGrouped(s, f, old, g) ==
    IF s = 0 THEN Append(old, <<g>>)
    ELSE [old EXCEPT ![f + 1] = old[f + 1] \o <<g>>]

\* line 38: shape of the array core allocates and returns
OutputShape(T, w) == <<T - w, 1>>

\* ------------------------------------------------------------------ Init
\* a DataFrame: what its index is and its columns in order; a series is
\* known by its name and by the file column (1 = first) it was read from
NoFrame == [index |-> "none", columns |-> <<>>]

\* the data functions are not called
AppIdle ==
    /\ csv_columns = 0
    /\ app_pc = "idle"
    /\ app_outcome = "running"
    /\ data = NoFrame
    /\ frame_arg = NoFrame
    /\ include_date = TRUE
    /\ headers = TRUE
    /\ written = <<>>
    /\ numeric_data = <<>>

\* no Plugin class is loaded
PluginIdle ==
    /\ heap = <<>>
    /\ self_params = <<>>
    /\ last_given = <<>>

\* the generator script is not running
GenIdle ==
    /\ csv_rows = 0
    /\ p_window_size = 0
    /\ p_n_components = 0
    /\ gen_pc = "idle"
    /\ gen_outcome = "running"
    /\ num_ticks = 0
    /\ ts_data = <<0, 0>>
    /\ s_data_rows = 0
    /\ dumped = FALSE
    /\ gen_i = 0
    /\ gen_fits = <<>>
    /\ output = <<>>

Init ==
    /\ GenIdle
    /\ AppIdle
    /\ PluginIdle
    /\ rows_d \in 0..MaxT
    /\ cols_d \in 1..MaxF
    /\ window_size \in WindowSizes
    /\ num_components \in NumComponentsValues
    /\ group_similar \in BOOLEAN
    /\ group_partition \in PartitionValues
    /\ module_globals \in {ShippedGlobals, AccGlobals, AllGlobals}
    /\ pc = "enter"
    /\ outcome = "running"
    /\ self_output_ds = <<>>
    /\ segments = 0
    /\ i = 0
    /\ j = 0
    /\ first = 0
    /\ last = 0
    /\ rank = NoRank
    /\ mssa = [n_components |-> NoRank, svht |-> FALSE, rank_ |-> NoRank,
               N_ |-> 0, seg |-> -1]
    /\ fits = <<>>
    /\ output_ds = <<>>
    /\ grouped_output = <<>>
    /\ group_calls = <<>>
    /\ returned = <<>>
    /\ returned_data = "none"
    /\ call = 1
    /\ prev = [outcome |-> "none", returned |-> <<>>, returned_data |-> "none"]

Raise_KeepsGoing(exc) ==
    /\ outcome' = exc
    /\ pc' = "for"

\* an exception nothing in core catches: the call ends
Raise(exc) ==
    /\ outcome' = exc
    /\ pc' = "done"

\* --------------------------------------------------------------- actions
\* lines 36-40: shape, allocation of self.output_ds, segment count
Enter ==
    /\ pc = "enter"
    /\ IF rows_d - window_size < 0
       THEN \* np.empty with a negative dimension
            /\ Raise("ValueError")
            /\ UNCHANGED <<self_output_ds, segments>>
       ELSE /\ self_output_ds' = OutputShape(rows_d, window_size)
            /\ IF window_size = 0
               THEN \* rows_d // 0
                    /\ Raise("ZeroDivisionError")
                    /\ UNCHANGED segments
               ELSE /\ segments' = SegmentCount(rows_d, window_size)
                    /\ pc' = "for"
                    /\ UNCHANGED outcome
    /\ UNCHANGED <<conf, genVars, appVars, plugVars, call, prev, group_calls, i, j, first, last, rank, mssa, fits, output_ds,
                   grouped_output, returned, returned_data>>

\* lines 41-49: next value of range(0, segments), first/last, the slice
SliceSegment ==
    /\ pc = "for"
    /\ i < segments
    /\ first' = SegFirst(i, window_size)
    /\ last' = SegLast(i, segments, rows_d, window_size)
    /\ pc' = "fit"
    /\ UNCHANGED <<conf, genVars, appVars, plugVars, call, prev, group_calls, outcome, self_output_ds, segments, i, j, rank, mssa,
                   fits, output_ds, grouped_output, returned, returned_data>>

\* lines 50-64: rank selection (segment 0 only) and the fit of the segment
FitSegment ==
    /\ pc = "fit"
    /\ LET N == last - first
           sv == SingularValues(N, cols_d, window_size)
           svht == UsesSvht(i, num_components)
       IN \E est \in IF svht THEN {r \in SvhtRanks : r <= sv} ELSE {NoRank} :
            LET r == SelectRank(i, num_components, est, rank)
                m == [n_components |-> IF svht THEN NoRank ELSE r,
                      svht |-> svht,
                      rank_ |-> IF svht THEN est ELSE Min(r, sv),
                      N_ |-> N,
                      seg |-> i]
            IN /\ rank' = r
               /\ mssa' = m
               /\ fits' = Append(fits, m)
    /\ pc' = "concat"
    /\ UNCHANGED <<conf, genVars, appVars, plugVars, call, prev, group_calls, outcome, self_output_ds, segments, i, j, first, last,
                   output_ds, grouped_output, returned, returned_data>>

\* lines 66-70: the elementary components (np.concatenate returns a new
\* array; line 70 does not keep it)
ConcatSegment ==
    /\ pc = "concat"
    /\ output_ds' = ConcatComponents(i, output_ds,
                        [seg |-> i, rows |-> mssa.N_, comps |-> mssa.rank_])
    /\ j' = 0
    /\ pc' = "group"
    /\ UNCHANGED <<conf, genVars, appVars, plugVars, call, prev, group_calls, outcome, self_output_ds, segments, i, first, last,
                   rank, mssa, fits, grouped_output, returned, returned_data>>

\* lines 76-85: one feature: set the groups, read the grouped components,
\* accumulate them
GroupFeature ==
    /\ pc = "group"
    /\ j < cols_d
    /\ group_calls' = Append(group_calls,
                           [seg |-> i, ts |-> j, groups |-> GroupsFor(i, j)])
    /\ IF \E c \in GroupIndices(GroupsFor(i, j)) : c >= mssa.rank_
       THEN \* line 78/79: a group names a component the fit did not produce
            /\ Raise("IndexError")
            /\ UNCHANGED <<j, grouped_output>>
       ELSE IF "grouped_output" \notin module_globals
       THEN \* line 82 (and 85): the name is bound nowhere
            /\ Raise("NameError")
            /\ UNCHANGED <<j, grouped_output>>
       ELSE /\ grouped_output' = AccumulateGrouped(i, j, grouped_output,
                    [seg |-> i, ts |-> j, rows |-> mssa.N_,
                     cols |-> Len(GroupsFor(i, j))])
            /\ j' = j + 1
            /\ UNCHANGED <<pc, outcome>>
    /\ UNCHANGED <<conf, genVars, appVars, plugVars, call, prev, self_output_ds, segments, i, first, last, rank, mssa,
                   fits, output_ds, returned, returned_data>>

EndSegment_SkipsOne ==
    /\ pc = "group"
    /\ j = cols_d
    /\ i' = i + 2
    /\ pc' = "for"
    /\ UNCHANGED <<conf, genVars, appVars, plugVars, call, prev, group_calls, outcome, self_output_ds, segments, j, first, last,
                   rank, mssa, fits, output_ds, grouped_output, returned, returned_data>>

\* lines 97-99: progress, back to the loop head
EndSegment ==
    /\ pc = "group"
    /\ j = cols_d
    /\ i' = i + 1
    /\ pc' = "for"
    /\ UNCHANGED <<conf, genVars, appVars, plugVars, call, prev, group_calls, outcome, self_output_ds, segments, j, first, last,
                   rank, mssa, fits, output_ds, grouped_output, returned, returned_data>>

\* lines 101-126: the report tail and the return
Report ==
    /\ pc = "for"
    /\ i >= segments
    /\ IF "output" \notin module_globals
       THEN /\ Raise("NameError")                      \* line 102
            /\ UNCHANGED <<returned, returned_data>>
       ELSE IF Len(grouped_output) = 0
       THEN /\ Raise("IndexError")                     \* line 103, empty list
            /\ UNCHANGED <<returned, returned_data>>
       ELSE IF "s_data" \notin module_globals \/ "plt" \notin module_globals
       THEN /\ Raise("NameError")                      \* lines 107, 113
            /\ UNCHANGED <<returned, returned_data>>
       ELSE /\ returned' = self_output_ds              \* line 126
            \* line 38: np.empty, and no line writes the array
            /\ returned_data' \in MemoryImages
            /\ outcome' = "returned"
            /\ pc' = "done"
    /\ UNCHANGED <<conf, genVars, appVars, plugVars, call, prev, group_calls, self_output_ds, segments, i, j, first, last, rank,
                   mssa, fits, output_ds, grouped_output>>

Next ==
    \/ Enter
    \/ SliceSegment
    \/ FitSegment
    \/ ConcatSegment
    \/ GroupFeature
    \/ EndSegment
    \/ Report

Spec == Init /\ [][Next]_vars

\* core is called again on the same instance, input and configuration: the
\* locals start afresh, the module-level grouped_output and the instance
\* attribute self.output_ds stay as the first call left them
CallAgain ==
    /\ pc = "done"
    /\ call = 1
    /\ call' = 2
    /\ prev' = [outcome |-> outcome, returned |-> returned,
                returned_data |-> returned_data]
    /\ pc' = "enter"
    /\ outcome' = "running"
    /\ segments' = 0
    /\ i' = 0
    /\ j' = 0
    /\ first' = 0
    /\ last' = 0
    /\ rank' = NoRank
    /\ mssa' = [n_components |-> NoRank, svht |-> FALSE, rank_ |-> NoRank,
                N_ |-> 0, seg |-> -1]
    /\ fits' = <<>>
    /\ output_ds' = <<>>
    /\ group_calls' = <<>>
    /\ returned' = <<>>
    /\ returned_data' = "none"
    /\ UNCHANGED <<conf, genVars, appVars, plugVars, self_output_ds, grouped_output>>

NextTwice ==
    \/ Next
    \/ CallAgain

SpecTwice == Init /\ [][NextTwice]_vars


\* ------------------------------------------------------------------------
\* q_datagen_multi_v2.py: the __main__ script
\* ------------------------------------------------------------------------
\* names of the script's module namespace that the loop reads: the script
\* binds p_window_size (line 47) and never window_size
ScriptGlobals == {"p_window_size", "p_n_components", "my_data", "num_ticks",
                  "s_data", "output", "mssa"}

FitRows_WholeDataset(n) == n

\* line 66: ts_data = my_data[0 : (num_ticks*3)//4, :]
FitRows(n) == (n * 3) \div 4

\* line 77: range(0, num_ticks - (2*p_window_size))
Iterations(n, w) == n - (2 * w)

\* core is not running
CoreIdle ==
    /\ rows_d = 0
    /\ cols_d = 1
    /\ window_size = 0
    /\ num_components = 0
    /\ group_similar = TRUE
    /\ group_partition = << <<0>>, <<1, 2>> >>
    /\ module_globals = ShippedGlobals
    /\ pc = "idle"
    /\ outcome = "running"
    /\ self_output_ds = <<>>
    /\ segments = 0
    /\ i = 0
    /\ j = 0
    /\ first = 0
    /\ last = 0
    /\ rank = NoRank
    /\ mssa = [n_components |-> NoRank, svht |-> FALSE, rank_ |-> NoRank,
               N_ |-> 0, seg |-> -1]
    /\ fits = <<>>
    /\ output_ds = <<>>
    /\ grouped_output = <<>>
    /\ group_calls = <<>>
    /\ returned = <<>>
    /\ returned_data = "none"
    /\ call = 1
    /\ prev = [outcome |-> "none", returned |-> <<>>, returned_data |-> "none"]

GenInit ==
    /\ CoreIdle
    /\ AppIdle
    /\ PluginIdle
    /\ csv_rows \in 0..MaxTicks
    /\ p_window_size \in 0..MaxGenW
    /\ p_n_components \in {0, 3}
    /\ gen_pc = "load"
    /\ gen_outcome = "running"
    /\ num_ticks = 0
    /\ ts_data = <<0, 0>>
    /\ s_data_rows = 0
    /\ dumped = FALSE
    /\ gen_i = 0
    /\ gen_fits = <<>>
    /\ output = <<>>

GenRaise(exc) ==
    /\ gen_outcome' = exc
    /\ gen_pc' = "done"

\* lines 58-61: genfromtxt, num_ticks, num_columns (a csv of two or more
\* columns: no row gives an empty array, one row gives a 1-D array)
GenLoad ==
    /\ gen_pc = "load"
    /\ IF csv_rows = 0
       THEN /\ GenRaise("IndexError")          \* line 61: my_data[0]
            /\ UNCHANGED num_ticks
       ELSE IF csv_rows = 1
       THEN /\ GenRaise("TypeError")           \* line 61: len of a float
            /\ UNCHANGED num_ticks
       ELSE /\ num_ticks' = csv_rows
            /\ gen_pc' = "fit"
            /\ UNCHANGED gen_outcome
    /\ UNCHANGED <<coreVars, appVars, plugVars, csv_rows, p_window_size, p_n_components, ts_data,
                   s_data_rows, dumped, gen_i, gen_fits, output>>

\* lines 64-67: the scaler is fitted on the leading rows
GenFitScaler ==
    /\ gen_pc = "fit"
    /\ IF FitRows(num_ticks) < 1
       THEN /\ GenRaise("ValueError")          \* StandardScaler.fit, no sample
            /\ UNCHANGED ts_data
       ELSE /\ ts_data' = <<0, FitRows(num_ticks)>>
            /\ gen_pc' = "transform"
            /\ UNCHANGED gen_outcome
    /\ UNCHANGED <<coreVars, appVars, plugVars, csv_rows, p_window_size, p_n_components,
                   num_ticks, s_data_rows, dumped, gen_i, gen_fits, output>>

\* lines 70-73: the whole dataset is transformed, the scaler is dumped
GenTransform ==
    /\ gen_pc = "transform"
    /\ s_data_rows' = num_ticks
    /\ dumped' = TRUE
    /\ output' = <<>>
    /\ gen_pc' = "loop"
    /\ UNCHANGED <<coreVars, appVars, plugVars, csv_rows, p_window_size, p_n_components,
                   gen_outcome, num_ticks, ts_data, gen_i, gen_fits>>

\* lines 77-91: one iteration of the per-tick loop
GenIterate ==
    /\ gen_pc = "loop"
    /\ gen_i < Iterations(num_ticks, p_window_size)
    /\ \E has_rank \in BOOLEAN :
         \* line 81 reads mssa.rank_ of an MSSA that was not fitted yet;
         \* has_rank: the library sets the attribute in the constructor
         IF gen_i = 0 /\ ~has_rank
         THEN /\ GenRaise("AttributeError")
              /\ UNCHANGED gen_fits
         ELSE IF "window_size" \notin ScriptGlobals
         THEN /\ GenRaise("NameError")         \* line 84
              /\ UNCHANGED gen_fits
         ELSE \* line 85, then line 86 indexes row N_ of N_ rows
              /\ gen_fits' = Append(gen_fits,
                    [i |-> gen_i, svht |-> gen_i = 0,
                     first |-> gen_i, last |-> gen_i + 2 * p_window_size])
              /\ GenRaise("IndexError")
    /\ UNCHANGED <<coreVars, appVars, plugVars, csv_rows, p_window_size, p_n_components,
                   num_ticks, ts_data, s_data_rows, dumped, gen_i, output>>

\* lines 93-105: the report after the loop
GenTail ==
    /\ gen_pc = "loop"
    /\ gen_i >= Iterations(num_ticks, p_window_size)
    /\ IF Len(output) = 0
       THEN GenRaise("IndexError")             \* line 93: output[0]
       ELSE /\ gen_outcome' = "finished"
            /\ gen_pc' = "done"
    /\ UNCHANGED <<coreVars, appVars, plugVars, csv_rows, p_window_size, p_n_components,
                   num_ticks, ts_data, s_data_rows, dumped, gen_i, gen_fits,
                   output>>

GenNext ==
    \/ GenLoad
    \/ GenFitScaler
    \/ GenTransform
    \/ GenIterate
    \/ GenTail

SpecGen == GenInit /\ [][GenNext]_vars

\* ------------------------------------------------------------------------
\* app/data_handler.py and app/data_processor.py
\* ------------------------------------------------------------------------
\* f'c{n}': the letter c followed by the decimal digits of n
ColumnName(n) ==
    <<"c1", "c2", "c3", "c4", "c5", "c6", "c7", "c8", "c9", "c10">>[n]

\* data_processor.py line 31
ohlc_columns == <<"c1", "c2", "c3", "c4">>

ColumnNamesOf(frame) ==
    {frame.columns[p].name : p \in 1..Len(frame.columns)}

\* data_handler.py line 13: ['date'] + [f'c{i+1}' for i in range(1, k)],
\* assigned to the k columns of the file in file order
RenameColumns(k) ==
    LET names == <<"date">> \o [x \in 1..(k - 1) |-> ColumnName(x + 1)]
    IN [index |-> "range",
        columns |-> [p \in 1..k |-> [name |-> names[p], src |-> p]]]

\* data_handler.py line 14: set_index('date', inplace=True): the column
\* becomes the index and is no longer a column
SetIndex(frame) ==
    [index |-> "date",
     columns |-> SelectSeq(frame.columns, LAMBDA c : c.name # "date")]

\* the index as to_csv(index=True) writes it
IndexSeries(frame) ==
    IF frame.index = "date" THEN <<[name |-> "date", src |-> 1]>>
    ELSE <<[name |-> "", src |-> 0]>>

\* data_handler.py lines 43-46: what to_csv writes
WrittenSeries(frame, inc) ==
    IF inc /\ "date" \in ColumnNamesOf(frame)
    THEN IndexSeries(frame) \o frame.columns
    ELSE frame.columns

\* data_processor.py line 33: data[ohlc_columns]
SelectColumns(frame, names) ==
    [x \in 1..Len(names) |->
        frame.columns[CHOOSE p \in 1..Len(frame.columns) :
                          frame.columns[p].name = names[x]]]

\* frames a caller builds itself, shaped as the docstrings describe them
CallerFrames ==
    { [index |-> "range",
       columns |-> <<[name |-> "date", src |-> 1], [name |-> "c1", src |-> 2],
                     [name |-> "c2", src |-> 3], [name |-> "c3", src |-> 4],
                     [name |-> "c4", src |-> 5]>>],
      [index |-> "date",
       columns |-> <<[name |-> "c1", src |-> 2], [name |-> "c2", src |-> 3],
                     [name |-> "c3", src |-> 4], [name |-> "c4", src |-> 5]>>],
      [index |-> "range",
       columns |-> <<[name |-> "c1", src |-> 1], [name |-> "c2", src |-> 2],
                     [name |-> "c3", src |-> 3], [name |-> "c4", src |-> 4]>>] }

AppInit ==
    /\ CoreIdle
    /\ GenIdle
    /\ PluginIdle
    /\ csv_columns \in 0..MaxCols
    /\ app_pc = "start"
    /\ app_outcome = "running"
    /\ data = NoFrame
    /\ frame_arg = NoFrame
    /\ include_date = TRUE
    /\ headers = TRUE
    /\ written = <<>>
    /\ numeric_data = <<>>

\* data_handler.py lines 3-27 (data_processor.py line 140)
load_csv ==
    /\ app_pc = "start"
    /\ IF csv_columns = 0
       THEN \* line 10: read_csv finds no column; lines 23-25 raise again
            /\ app_outcome' = "EmptyDataError"
            /\ app_pc' = "done"
            /\ UNCHANGED data
       ELSE /\ data' = SetIndex(RenameColumns(csv_columns))
            /\ app_pc' = "loaded"
            /\ UNCHANGED app_outcome
    /\ UNCHANGED <<coreVars, genVars, plugVars, csv_columns, frame_arg,
                   include_date, headers, written, numeric_data>>

\* data_handler.py lines 32-49
write_csv ==
    /\ app_pc = "loaded"
    /\ \E frame \in {data} \cup CallerFrames, inc \in BOOLEAN, hdr \in BOOLEAN :
         /\ frame_arg' = frame
         /\ include_date' = inc
         /\ headers' = hdr
         /\ written' = WrittenSeries(frame, inc)
    /\ app_outcome' = "ok"
    /\ app_pc' = "written"
    /\ UNCHANGED <<coreVars, genVars, plugVars, csv_columns, data,
                   numeric_data>>

\* data_processor.py lines 14-50 (line 144 passes the loaded frame)
process_data ==
    /\ app_pc = "loaded"
    /\ \E frame \in {data} \cup CallerFrames :
         /\ frame_arg' = frame
         /\ IF \A x \in 1..Len(ohlc_columns) :
                  ohlc_columns[x] \in ColumnNamesOf(frame)
            THEN /\ numeric_data' = SelectColumns(frame, ohlc_columns)
                 /\ app_outcome' = "ok"
            ELSE \* line 35
                 /\ app_outcome' = "KeyError"
                 /\ UNCHANGED numeric_data
    /\ app_pc' = "processed"
    /\ UNCHANGED <<coreVars, genVars, plugVars, csv_columns, data,
                   include_date, headers, written>>

AppNext ==
    \/ load_csv
    \/ write_csv
    \/ process_data

SpecApp == AppInit /\ [][AppNext]_vars

\* ------------------------------------------------------------------------
\* app/plugins/tech_indicator.py: Plugin.__init__ and Plugin.set_params
\* ------------------------------------------------------------------------
\* lines 12-18 (values by their text)
plugin_params ==
    [k \in {"short_term_period", "mid_term_period", "long_term_period",
            "indicators", "ohlc_order"} |->
        CASE k = "short_term_period" -> "14"
          [] k = "mid_term_period" -> "50"
          [] k = "long_term_period" -> "200"
          [] k = "indicators" -> "rsi,macd,ema,stoch,adx,atr,cci,bbands,williams,momentum,roc"
          [] k = "ohlc_order" -> "ohlc"]

Instances == {"a", "b"}

\* the dict objects: the class attribute and one copy per instance
ObjIds == {"plugin_params"} \cup Instances

NoDict == [k \in {} |-> ""]

\* keyword names callers pass: three the class knows, one it does not
KwargKeys == {"short_term_period", "indicators", "ohlc_order",
              "output_columns"}

KwargValues == {"v1", "v2"}

Kwargs == UNION {[K -> KwargValues] : K \in SUBSET KwargKeys}

\* line 24: self.plugin_params.copy() is a new dict object
ParamsObject(p) == p

UpdateParams_AnyKey(d, kwargs) ==
    [k \in DOMAIN d \cup DOMAIN kwargs |->
        IF k \in DOMAIN kwargs THEN kwargs[k] ELSE d[k]]

\* lines 27-29: only keys the dict already has are assigned
UpdateParams(d, kwargs) ==
    [k \in DOMAIN d |-> IF k \in DOMAIN kwargs THEN kwargs[k] ELSE d[k]]

PluginInit ==
    /\ CoreIdle
    /\ GenIdle
    /\ AppIdle
    /\ heap = [o \in ObjIds |->
                 IF o = "plugin_params" THEN plugin_params ELSE NoDict]
    /\ self_params = [p \in Instances |-> "none"]
    /\ last_given = [p \in Instances |-> [k \in KwargKeys |-> "none"]]

\* lines 23-24: Plugin()
Plugin_init ==
    /\ \E p \in Instances :
         /\ self_params[p] = "none"
         /\ heap' = [heap EXCEPT ![ParamsObject(p)] = heap["plugin_params"]]
         /\ self_params' = [self_params EXCEPT ![p] = ParamsObject(p)]
    /\ UNCHANGED <<coreVars, genVars, appVars, last_given>>

\* lines 26-29: set_params(**kwargs)
set_params ==
    /\ \E p \in Instances, kwargs \in Kwargs :
         /\ self_params[p] # "none"
         /\ heap' = [heap EXCEPT ![self_params[p]] = UpdateParams(@, kwargs)]
         /\ last_given' = [last_given EXCEPT ![p] =
                [k \in KwargKeys |->
                    IF k \in DOMAIN kwargs THEN kwargs[k] ELSE @[k]]]
    /\ UNCHANGED <<coreVars, genVars, appVars, self_params>>

PluginNext ==
    \/ Plugin_init
    \/ set_params

SpecPlugin == PluginInit /\ [][PluginNext]_vars

\* ------------------------------------------------------------ properties
Valid == window_size >= 1 /\ rows_d >= 2 * window_size

Shipped == module_globals = ShippedGlobals

G == Len(ts0_groups)

\* the run is over, or the segment loop has run out of segments
AllSegmentsDone == pc = "done" \/ (pc = "for" /\ i >= segments)

RECURSIVE RowsOf(_)
RowsOf(blocks) ==
    IF Len(blocks) = 0 THEN 0 ELSE blocks[1].rows + RowsOf(Tail(blocks))

\* length of segment s as the specification defines it
SegmentLength(s) ==
    IF s = (rows_d \div (2 * window_size)) - 1
    THEN rows_d - s * 2 * window_size
    ELSE 2 * window_size

\* C1: for T >= 2w, w >= 1, core returns a matrix and that matrix has
\* exactly T - w rows.
C1_ReturnsTMinusW ==
    (Valid /\ Shipped /\ pc = "done")
        => (outcome = "returned" /\ Len(returned) = 2
            /\ returned[1] = rows_d - window_size)

\* C2: once every segment has been processed, each feature has accumulated
\* exactly T - window_size rows of grouped output.
C2_AccumulatedRows ==
    (Valid /\ Shipped /\ AllSegmentsDone)
        => (/\ Len(grouped_output) = cols_d
            /\ \A f \in 1..cols_d :
                 RowsOf(grouped_output[f]) = rows_d - window_size)

\* C3: for T >= 2w the segment loop computes T // (2w) row ranges that start
\* at 0, end at T, are contiguous and pairwise disjoint; range s is
\* [s*2w, (s+1)*2w) except the last, which ends at T; T = 2w gives the single
\* range [0, T).
C3_Segmentation ==
    (Valid /\ pc \notin {"enter"}) =>
        LET w == window_size
            T == rows_d
            n == segments
        IN /\ n = T \div (2 * w)
           /\ n >= 1
           /\ SegFirst(0, w) = 0
           /\ SegLast(n - 1, n, T, w) = T
           /\ \A s \in 0..(n - 1) :
                /\ SegFirst(s, w) = s * 2 * w
                /\ SegFirst(s, w) < SegLast(s, n, T, w)
                /\ s < n - 1 => /\ SegLast(s, n, T, w) = (s + 1) * 2 * w
                                /\ SegLast(s, n, T, w) = SegFirst(s + 1, w)
                /\ \A t \in (s + 1)..(n - 1) :
                     SegLast(s, n, T, w) <= SegFirst(t, w)
           /\ T = 2 * w => (n = 1 /\ SegFirst(0, w) = 0
                            /\ SegLast(0, n, T, w) = T)
           /\ pc \in {"fit", "concat", "group"} =>
                /\ i < n
                /\ first = i * 2 * w
                /\ last = (IF i = n - 1 THEN T ELSE (i + 1) * 2 * w)
           /\ \A k \in 1..Len(fits) :
                fits[k].N_ = (IF fits[k].seg = n - 1
                              THEN T - fits[k].seg * 2 * w ELSE 2 * w)

\* the last of three segments is being fitted and has absorbed a remainder
C3_Witness ==
    /\ pc = "fit"
    /\ i = 2
    /\ i = segments - 1
    /\ first = 4 * window_size
    /\ last = rows_d
    /\ rows_d > 6 * window_size

\* C4: SVHT rank estimation runs at most once and only at segment 0; every
\* fit of a segment >= 1 is given the rank fixed at segment 0, and the local
\* rank keeps that value from segment 0 on.
C4_RankFrozen ==
    /\ Cardinality({k \in 1..Len(fits) : fits[k].svht}) <= 1
    /\ \A k \in 1..Len(fits) :
         /\ fits[k].svht => fits[k].seg = 0
         /\ fits[k].seg = k - 1
    /\ Len(fits) >= 1 =>
         LET rank0 == IF fits[1].svht THEN fits[1].rank_
                      ELSE fits[1].n_components
         IN /\ rank = rank0
            /\ \A k \in 2..Len(fits) :
                 ~fits[k].svht /\ fits[k].n_components = rank0
    /\ Len(fits) = 0 => rank = NoRank

\* segment 1 has been fitted after segment 0 estimated the rank by SVHT
C4_Witness ==
    /\ Len(fits) >= 2
    /\ fits[1].svht
    /\ fits[2].seg = 1
    /\ fits[2].n_components = fits[1].rank_

\* C5: with num_components > 0 every fit is given exactly num_components and
\* none runs SVHT; with num_components = 0 the rank is the SVHT estimate of
\* segment 0.
C5_ConfiguredRank ==
    /\ num_components > 0 =>
         /\ rank \in {NoRank, num_components}
         /\ \A k \in 1..Len(fits) :
              ~fits[k].svht /\ fits[k].n_components = num_components
    /\ (num_components = 0 /\ Len(fits) >= 1) =>
         /\ fits[1].svht
         /\ fits[1].seg = 0
         /\ rank = fits[1].rank_

\* two segments have been fitted with a configured rank
C5_Witness ==
    /\ num_components > 0
    /\ Len(fits) >= 2
    /\ fits[2].seg = 1
    /\ rank = num_components

\* C6: once segments 0..N-1 have been processed, the grouped output of every
\* feature is the concatenation, in ascending segment order, of the grouped
\* matrix of every segment, segment 0 included.
C6_GroupedConcatenation ==
    (Valid /\ Shipped /\ AllSegmentsDone)
        => (/\ Len(grouped_output) = cols_d
            /\ \A f \in 1..cols_d :
                 grouped_output[f] =
                     [s \in 1..segments |->
                         [seg |-> s - 1, ts |-> f - 1,
                          rows |-> SegmentLength(s - 1), cols |-> G]])

\* C7: core returns a matrix of F * G columns (and T - w rows) holding the
\* accumulated grouped components.
C7_ReturnsFTimesG ==
    (Valid /\ Shipped /\ pc = "done")
        => (outcome = "returned"
            /\ returned = <<rows_d - window_size, cols_d * G>>)

\* C8: with T < 2 * window_size core fails with InsufficientData.
C8_InsufficientData ==
    (window_size >= 1 /\ rows_d < 2 * window_size /\ Shipped /\ pc = "done")
        => outcome = "InsufficientData"

\* C9: a partition naming a component index outside [0, rank) makes core
\* fail with InvalidPartition before any segment is fitted.
C9_InvalidPartitionEager ==
    (Shipped /\ pc = "done" /\ rank # NoRank
       /\ \E c \in GroupIndices(ts0_groups) : c < 0 \/ c >= rank)
        => (outcome = "InvalidPartition" /\ Len(fits) = 0)

\* C10: whenever core applies the group list to a fit, the list is a
\* partition of 0..rank-1: no index is left out, none is in two groups, none
\* is >= rank.
C10_PartitionOfRank ==
    (Shipped /\ pc = "group" /\ j < cols_d)
        => (/\ GroupIndices(ts0_groups) = 0..(rank - 1)
            /\ \A g, h \in 1..G : \A a \in 1..Len(ts0_groups[g]) :
                 \A b \in 1..Len(ts0_groups[h]) :
                   ts0_groups[g][a] = ts0_groups[h][b] => (g = h /\ a = b))

MultiGroups(groups) ==
    { groups[g] : g \in { h \in 1..Len(groups) : Len(groups[h]) > 1 } }

SingletonIndices(groups) ==
    { groups[g][1] : g \in { h \in 1..Len(groups) : Len(groups[h]) = 1 } }

\* C11 as stated: the group list core uses has 11 groups, {4,5} is its only
\* group of more than one index, and each of 0..3 and 6..12 is a singleton.
C11_OnlyPairIs45 ==
    \A k \in 1..Len(group_calls) :
        /\ Len(group_calls[k].groups) = 11
        /\ MultiGroups(group_calls[k].groups) = { <<4, 5>> }
        /\ SingletonIndices(group_calls[k].groups) = (0..3) \cup (6..12)

\* C11 amended: the group list core uses has 11 groups over the indices
\* 0..12; {4,5} and {9,10} are its two pair groups and each of 0..3, 6..8,
\* 11 and 12 is a singleton.
C11_TwoPairs ==
    \A k \in 1..Len(group_calls) :
        /\ Len(group_calls[k].groups) = 11
        /\ MultiGroups(group_calls[k].groups) = { <<4, 5>>, <<9, 10>> }
        /\ SingletonIndices(group_calls[k].groups)
               = (0..3) \cup (6..8) \cup {11, 12}
        /\ GroupIndices(group_calls[k].groups) = 0..12

\* the group list has been handed to the library
C11_Witness ==
    /\ Len(group_calls) >= 1
    /\ group_calls[1].seg = 0
    /\ group_calls[1].ts = 0

\* C12: core applies the configured group_partition: whenever that is a
\* partition of 0..rank-1, every grouping call is given it and the grouped
\* matrix has one column per configured group.
C12_AppliesConfiguredPartition ==
    (Shipped /\ rank # NoRank
       /\ GroupIndices(group_partition) = 0..(rank - 1))
        => (/\ \A k \in 1..Len(group_calls) :
                 group_calls[k].groups = group_partition
            /\ pc = "done" =>
                 (/\ Len(grouped_output) = cols_d
                  /\ \A f \in 1..cols_d : \A b \in 1..Len(grouped_output[f]) :
                       grouped_output[f][b].cols = Len(group_partition)))

\* C13: every grouping call of one run is given the same group list,
\* whatever the segment and the feature.
C13_SamePartitionEverywhere ==
    \A a, b \in 1..Len(group_calls) :
        group_calls[a].groups = group_calls[b].groups

\* the groups were set for two features of two segments
C13_Witness ==
    \E a, b \in 1..Len(group_calls) :
        /\ group_calls[a].seg # group_calls[b].seg
        /\ group_calls[a].ts # group_calls[b].ts

\* C15: a non-positive estimated rank makes core fail with
\* RankEstimationFailed, and no fit is ever given a rank below 1.
C15_RankAtLeastOne ==
    Shipped =>
        /\ (rank # NoRank /\ rank < 1) => outcome = "RankEstimationFailed"
        /\ \A k \in 1..Len(fits) : ~fits[k].svht => fits[k].n_components >= 1

\* C16: two calls of core on the same input and configuration both return,
\* and return identical matrices.
C16_SameOutputTwice ==
    (Valid /\ Shipped /\ call = 2 /\ pc = "done")
        => (/\ prev.outcome = "returned"
            /\ outcome = "returned"
            /\ returned = prev.returned
            /\ returned_data = prev.returned_data)

\* C19: an exception in any step ends the call with nothing returned; a
\* matrix is returned only after every segment was fitted and accumulated,
\* and the accumulated blocks never skip a segment.
C19_AbortOnFailure ==
    /\ outcome \notin {"running", "returned"} =>
         (pc = "done" /\ returned = <<>> /\ returned_data = "none")
    /\ returned # <<>> => outcome = "returned"
    /\ outcome = "returned" =>
         /\ pc = "done"
         /\ Len(fits) = segments
         /\ \A s \in 1..segments : fits[s].seg = s - 1
         /\ Len(grouped_output) = cols_d
         /\ \A f \in 1..cols_d : Len(grouped_output[f]) = segments
    /\ \A f \in 1..Len(grouped_output) : \A b \in 1..Len(grouped_output[f]) :
         grouped_output[f][b].seg = b - 1

\* the grouping of a fitted segment failed and the call ended without output
C19_Witness ==
    /\ pc = "done"
    /\ outcome \in {"IndexError", "NameError"}
    /\ Len(fits) >= 1
    /\ Len(group_calls) >= 1
    /\ returned = <<>>

\* C20: with group_similar False core groups nothing.
C20_GroupsOnlyIfSimilar ==
    (Shipped /\ ~group_similar) => group_calls = <<>>

\* C14 as stated: the scaler is fitted on exactly the first ceil(0.75*T)
\* rows and then applied to all T rows.
C14_FitOnCeil ==
    /\ ts_data # <<0, 0>> =>
         /\ ts_data[1] = 0
         /\ 4 * ts_data[2] >= 3 * num_ticks
         /\ 4 * (ts_data[2] - 1) < 3 * num_ticks
    /\ s_data_rows > 0 => s_data_rows = num_ticks

\* C14 amended: for T >= 2 the scaler is fitted on exactly the first
\* floor(0.75*T) rows, on no later row, and then applied to all T rows.
C14_FitOnFloor ==
    /\ gen_pc \in {"transform", "loop"} => ts_data # <<0, 0>>
    /\ ts_data # <<0, 0>> =>
         /\ num_ticks >= 2
         /\ ts_data[1] = 0
         /\ 4 * ts_data[2] <= 3 * num_ticks
         /\ 3 * num_ticks < 4 * (ts_data[2] + 1)
         /\ ts_data[2] < num_ticks
    /\ gen_pc = "loop" => (s_data_rows = num_ticks /\ dumped)
    /\ s_data_rows > 0 => (s_data_rows = num_ticks /\ ts_data # <<0, 0>>)

\* the whole dataset was transformed by a scaler fitted on a proper prefix,
\* T not a multiple of 4
C14_Witness ==
    /\ gen_pc = "loop"
    /\ num_ticks % 4 # 0
    /\ ts_data[2] >= 1
    /\ ts_data[2] < num_ticks
    /\ s_data_rows = num_ticks

\* C17: the rolling generator fits window i on rows [i, i + 2w) for every
\* i of the loop, selects the rank at i = 0 and gives that rank to every
\* later fit.
C17_RollingWindows ==
    (gen_pc = "done" /\ num_ticks >= 2 /\ p_window_size >= 1
       /\ Iterations(num_ticks, p_window_size) >= 1)
        => (/\ gen_outcome = "finished"
            /\ Len(gen_fits) = num_ticks - 2 * p_window_size
            /\ \A k \in 1..Len(gen_fits) :
                 /\ gen_fits[k].first = k - 1
                 /\ gen_fits[k].last = k - 1 + 2 * p_window_size
                 /\ gen_fits[k].svht = (k = 1))

\* C18: the generator ends with an output of exactly num_obs - window_size
\* rows.
C18_OutputRows ==
    (gen_pc = "done" /\ num_ticks >= 2 /\ p_window_size >= 1)
        => (/\ gen_outcome = "finished"
            /\ Len(output) = num_ticks - p_window_size)

\* C23: while core works on segment i, after the accumulation step of that
\* segment, the elementary-component accumulator holds one contribution per
\* segment 0..i, in segment order: the result of every accumulation step is
\* kept.
C23_AccumulatorRetained ==
    (Valid /\ pc = "group") =>
        /\ Len(output_ds) = i + 1
        /\ \A k \in 1..Len(output_ds) : output_ds[k].seg = k - 1

\* C24: segments are fitted in ascending index order, each once and one at a
\* time, and the rank is bound before the fit of any segment i >= 1 starts:
\* every fit of a segment >= 1 is given a rank that was already determined.
C24_OrderedRankFirst ==
    /\ \A k \in 1..Len(fits) : fits[k].seg = k - 1
    /\ pc \in {"fit", "concat", "group"} => i < segments
    /\ pc = "fit" => Len(fits) = i
    /\ pc \in {"concat", "group"} => (Len(fits) = i + 1 /\ mssa.seg = i)
    /\ (pc = "fit" /\ i >= 1) => (rank # NoRank /\ ~UsesSvht(i, num_components))
    /\ \A k \in 2..Len(fits) :
         /\ ~fits[k].svht
         /\ fits[k].n_components # NoRank
         /\ fits[k].n_components = rank

\* segment 1 is about to be fitted: segment 0 is done and the rank is bound
C24_Witness ==
    /\ pc = "fit"
    /\ i = 1
    /\ Len(fits) = 1
    /\ fits[1].seg = 0
    /\ rank # NoRank

\* C26: for w >= 1 and T >= 2w every segment the loop produces has at least
\* 2w and fewer than 4w rows, only the last has more than 2w, so the window
\* never exceeds the segment handed to a fit.
C26_SegmentLengthBounds ==
    (Valid /\ pc \notin {"enter"}) =>
        /\ \A s \in 0..(segments - 1) :
             LET len == SegLast(s, segments, rows_d, window_size)
                            - SegFirst(s, window_size)
             IN /\ len >= 2 * window_size
                /\ len < 4 * window_size
                /\ s # segments - 1 => len = 2 * window_size
                /\ window_size <= len
        /\ pc \in {"fit", "concat", "group"} =>
             /\ last - first >= 2 * window_size
             /\ last - first < 4 * window_size
             /\ window_size <= last - first
        /\ \A k \in 1..Len(fits) :
             /\ fits[k].N_ >= 2 * window_size
             /\ fits[k].N_ < 4 * window_size
             /\ window_size <= fits[k].N_

\* a last segment longer than 2w has been handed to a fit
C26_Witness ==
    /\ Valid
    /\ Len(fits) >= 2
    /\ fits[Len(fits)].seg = segments - 1
    /\ fits[Len(fits)].N_ > 2 * window_size
    /\ fits[1].N_ = 2 * window_size

\* C21: for a csv of a date column and n >= 1 data columns, the frame
\* load_csv returns has the dates under the name 'date' and the k-th data
\* column of the file under the name 'c' followed by k, in file order.
C21_ColumnNames ==
    (app_pc = "loaded" /\ csv_columns >= 2) =>
        /\ data.index = "date"
        /\ Len(data.columns) = csv_columns - 1
        /\ \A x \in 1..(csv_columns - 1) :
             data.columns[x] = [name |-> ColumnName(x), src |-> x + 1]

CarriesDates(frame) ==
    frame.index = "date" \/ "date" \in ColumnNamesOf(frame)

DatesWritten == \E x \in 1..Len(written) : written[x].name = "date"

\* C22: write_csv writes the dates whenever include_date is True and the
\* frame carries dates; for the frame load_csv returned, include_date=True
\* writes the dates and include_date=False leaves them out.
C22_DateWritten ==
    (app_pc = "written" /\ csv_columns >= 2) =>
        /\ (include_date /\ CarriesDates(frame_arg)) => DatesWritten
        /\ (frame_arg = data /\ include_date) => DatesWritten
        /\ (frame_arg = data /\ ~include_date) => ~DatesWritten

\* C25: for a csv of a date column and at least four data columns,
\* process_data on the frame load_csv returned does not raise KeyError and
\* hands the plugin exactly the first four data columns of the file, as
\* c1..c4.
C25_FindsOhlc ==
    (app_pc = "processed" /\ frame_arg = data /\ csv_columns >= 5) =>
        /\ app_outcome = "ok"
        /\ numeric_data =
               [x \in 1..4 |-> [name |-> ohlc_columns[x], src |-> x + 1]]

\* C27: after any sequence of set_params calls, the class dict is what the
\* class body made it, and the dict of every instance has exactly the keys
\* of the class dict, each holding the last value a set_params call on that
\* instance gave it, or the class default when no call on that instance
\* gave it; a key the class does not have is never added.
C27_SetParamsFrame ==
    /\ heap["plugin_params"] = plugin_params
    /\ \A p \in Instances :
         IF self_params[p] = "none" THEN heap[p] = NoDict
         ELSE LET d == heap[self_params[p]]
              IN /\ self_params[p] = p
                 /\ DOMAIN d = DOMAIN plugin_params
                 /\ \A k \in DOMAIN d :
                      d[k] = IF k \in KwargKeys /\ last_given[p][k] # "none"
                             THEN last_given[p][k]
                             ELSE plugin_params[k]

\* instance a was given a key the class does not have and, more than once,
\* a key it has; instance b exists and was never given anything
C27_Witness ==
    /\ self_params["a"] # "none"
    /\ self_params["b"] # "none"
    /\ last_given["a"]["output_columns"] # "none"
    /\ last_given["a"]["ohlc_order"] = "v2"
    /\ last_given["a"]["indicators"] = "v1"
    /\ heap[self_params["a"]]["ohlc_order"] = "v2"
    /\ \A k \in KwargKeys : last_given["b"][k] = "none"
    /\ heap[self_params["b"]] = plugin_params
====
